---- MODULE Spec2Model ----
(***************************************************************************)
(* know-direction: waypoint graph synthesis and route planning.            *)
(*                                                                         *)
(* Geometry.  Every point of a modelled geography lies on one meridian, so *)
(* GeoPoint.distance_to (haversine, radius 3958.8 miles) is exactly the    *)
(* absolute difference of the points' arc lengths along that meridian.  A  *)
(* point is represented by that arc length, an integer number of miles.    *)
(*                                                                         *)
(* Identity.  GeoPoint is declared eq=False: a node is an object, not a    *)
(* coordinate.  A city is <<"PopulatedPlace", 0, i>> (i-th city of the     *)
(* geography), a river point is <<"RiverPoint", r, j>> (j-th point of the  *)
(* r-th river).                                                            *)
(*                                                                         *)
(* Graph.  networkx.DiGraph: a node set and at most one attribute          *)
(* dictionary per ordered node pair.                                       *)
(***************************************************************************)
EXTENDS Integers, Sequences, FiniteSets, TLC

VARIABLES
    program,          \* which entry point runs: "create_waypoints" or "waypoint_graph"
    world_geography,  \* [cities: Seq(miles), rivers: Seq(Seq(miles))]
    waypoint_graph,   \* [nodes: set of nodes, adj: [node pair -> attribute record]]
    add_edge_calls,   \* history: <<u, v, travel_mode>> of every add_edge call made so far
    pc,               \* position in the pipeline
    iter,             \* index of the current iteration of the phase's outer loop
    phases_run,       \* the construction phases run so far on the graph, whole, in order
    raised,           \* "" or the name of the exception that ended the run
    returned,         \* value returned by WaypointGraph.create_from ("" before it returns)
    speeds,           \* SpeedInfo handed to decorate_with_travel_time_in_place
    source_city,      \* route query
    destination_city,
    path,             \* result of networkx.shortest_path
    printed           \* what pretty_print_path read from the edges of the path

vars == <<program, world_geography, waypoint_graph, add_edge_calls, pc, iter, phases_run,
          raised, returned, speeds, source_city, destination_city, path, printed>>

----------------------------------------------------------------------------
(* Bounds of the checked geographies and queries *)

MaxCities == 31
MaxRivers == 6
MaxRiverLen == 3
MaxQueryCities == 2
MaxDistance == 3

(* Program constants *)

CityK == 30      \* closest_n_points_to(city, 30)
RiverK == 10     \* closest_n_points_to(river.start, 10)

OVERLAND == "OVERLAND"
UPSTREAM == "UPSTREAM"
DOWNSTREAM == "DOWNSTREAM"
SEA == "SEA"
TravelMode == {OVERLAND, UPSTREAM, DOWNSTREAM, SEA}

----------------------------------------------------------------------------
(* world_geography.py: points, rivers, distance *)

PopulatedPlace(i) == <<"PopulatedPlace", 0, i>>
RiverPoint(r, j) == <<"RiverPoint", r, j>>

IsCity(p) == p[1] = "PopulatedPlace"
IsRiverPoint(p) == p[1] = "RiverPoint"

\* WorldGeography.cities, in load order
cities(wg) == [c \in 1..Len(wg.cities) |-> PopulatedPlace(c)]

\* River.points_in_direction_of_water_flow of the r-th river
points_in_direction_of_water_flow(wg, r) ==
    [j \in 1..Len(wg.rivers[r]) |-> RiverPoint(r, j)]

\* River.start, River.end: first and last point
start(wg, r) == RiverPoint(r, 1)
end(wg, r) == RiverPoint(r, Len(wg.rivers[r]))

\* arc length of a point along the meridian, in miles
Miles(wg, p) == IF IsCity(p) THEN wg.cities[p[3]] ELSE wg.rivers[p[2]][p[3]]

Abs(x) == IF x < 0 THEN -x ELSE x

\* GeoPoint.distance_to
distance_to(wg, a, b) == Abs(Miles(wg, a) - Miles(wg, b))

\* WorldGeography._init_river_endpoint_kd_tree: all starts, then all ends
river_endpoints(wg) ==
    [e \in 1..(2 * Len(wg.rivers)) |->
        IF e <= Len(wg.rivers) THEN start(wg, e) ELSE end(wg, e - Len(wg.rivers))]

SeqRange(s) == {s[i] : i \in DOMAIN s}

AllCities(wg) == SeqRange(cities(wg))
AllRiverPoints(wg) ==
    UNION {SeqRange(points_in_direction_of_water_flow(wg, r)) : r \in 1..Len(wg.rivers)}
AllRiverEndpoints(wg) == SeqRange(river_endpoints(wg))

----------------------------------------------------------------------------
(* GeoPointProximity: BallTree.query(k) *)

\* BallTree.query raises ValueError when k exceeds the number of indexed points
QueryRaises(points, k) == k > Len(points)

\* the sequence f with every element worked out once
Tabulate(f) == SubSeq(f, 1, Len(f))

\* GeoPointProximity.closest_n_points_to, for num_points <= Len(points): the
\* indexed points in the order of increasing distance from the query point
\* (equally distant ones in index order), cut after num_points.
\* rank[i]: how many indexed points precede points[i] in that order.
closest_n_points_to(wg, points, query_point, num_points) ==
    LET d == Tabulate([i \in DOMAIN points |-> distance_to(wg, query_point, points[i])])
        rank == Tabulate([i \in DOMAIN points |->
                    Cardinality({j \in DOMAIN points :
                        d[j] < d[i] \/ (d[j] = d[i] /\ j < i)})])
    IN  Tabulate([n \in 1..num_points |->
                     points[CHOOSE i \in DOMAIN points : rank[i] = n - 1]])

\* the query does not cut through a group of equally distant points, so its
\* result set does not depend on how the tree orders equal distances
NoCutoffTie(wg, points, query_point, num_points) ==
    \/ num_points >= Len(points)
    \/ LET near == closest_n_points_to(wg, points, query_point, num_points + 1)
       IN  distance_to(wg, query_point, near[num_points])
             < distance_to(wg, query_point, near[num_points + 1])

----------------------------------------------------------------------------
(* networkx.DiGraph *)

EmptyGraph == [nodes |-> {}, adj |-> <<>>]

add_nodes_from(G, ns) == [G EXCEPT !.nodes = @ \cup ns]

\* DiGraph.add_edge(u, v, distance=, travel_mode=): one attribute dictionary
\* per ordered pair; adding an existing pair updates its dictionary
\* the attribute dictionary of the pair after the call
edge_attributes(G, u, v, distance, travel_mode) ==
    IF <<u, v>> \in DOMAIN G.adj
    THEN [G.adj[<<u, v>>] EXCEPT !.distance = distance, !.travel_mode = travel_mode]
    ELSE [distance |-> distance, travel_mode |-> travel_mode]

add_edge(G, u, v, distance, travel_mode) ==
    [nodes |-> G.nodes \cup {u, v},
     adj |-> IF <<u, v>> \in DOMAIN G.adj
             THEN [G.adj EXCEPT ![<<u, v>>] = edge_attributes(G, u, v, distance, travel_mode)]
             ELSE G.adj @@ (<<u, v>> :> edge_attributes(G, u, v, distance, travel_mode))]

HasEdge(G, u, v) == <<u, v>> \in DOMAIN G.adj

----------------------------------------------------------------------------
(* waypoint_graph.py: the loop bodies of the four phases of create_from *)

\* lines 94-101: the segments of one river, from its j-th point on
RECURSIVE RiverSegments(_, _, _, _)
RiverSegments(G, wg, r, j) ==
    IF j >= Len(wg.rivers[r]) THEN G
    ELSE LET river_segment_source == RiverPoint(r, j)
             river_segment_destination == RiverPoint(r, j + 1)
             segment_distance == distance_to(wg, river_segment_source, river_segment_destination)
         IN  RiverSegments(
                 add_edge(add_edge(G, river_segment_source, river_segment_destination,
                                   segment_distance, DOWNSTREAM),
                          river_segment_destination, river_segment_source,
                          segment_distance, UPSTREAM),
                 wg, r, j + 1)

\* WaypointGraph._build_waypoints_from_rivers, lines 93-101: one river
_build_waypoints_from_rivers(G, wg, r) ==
    RiverSegments(add_nodes_from(G, SeqRange(points_in_direction_of_water_flow(wg, r))),
                  wg, r, 1)

\* mutant of OverlandBothWays: the edge p1 -> p2 only, without its reverse
OverlandOneWay(G, wg, p1, others) ==
    LET pairs == {<<p1, p2>> : p2 \in others}
    IN  [nodes |-> G.nodes \cup (IF others = {} THEN {} ELSE {p1} \cup others),
         adj |-> [p \in DOMAIN G.adj \cup pairs |->
                    IF p \in pairs
                    THEN edge_attributes(G, p[1], p[2], distance_to(wg, p1, p[2]), OVERLAND)
                    ELSE G.adj[p]]]

\* The add_edge calls of one inner loop of the builder, taken together.  The
\* loop pairs one point p1 with each point p2 of `others`:
\*     add_edge(p1, p2, distance=p1.distance_to(p2), travel_mode=OVERLAND)
\*     add_edge(p2, p1, distance=p1.distance_to(p2), travel_mode=OVERLAND)
\* Two calls of the loop on the same ordered pair carry the same attributes,
\* so the graph after the loop does not depend on the order of `others`.
OverlandBothWays(G, wg, p1, others) ==
    LET pairs == {<<p1, p2>> : p2 \in others} \cup {<<p2, p1>> : p2 \in others}
    IN  [nodes |-> G.nodes \cup (IF others = {} THEN {} ELSE {p1} \cup others),
         adj |-> [p \in DOMAIN G.adj \cup pairs |->
                    IF p \in pairs
                    THEN edge_attributes(G, p[1], p[2],
                             distance_to(wg, p1, IF p[1] = p1 THEN p[2] ELSE p[1]), OVERLAND)
                    ELSE G.adj[p]]]

\* the add_edge calls of that loop, as <<u, v, travel_mode>>
OverlandCalls(p1, others) ==
    {<<p1, p2, OVERLAND>> : p2 \in others} \cup {<<p2, p1, OVERLAND>> : p2 \in others}

\* the add_edge calls of lines 96-101 for one river
SegmentCalls(wg, r) ==
    {<<RiverPoint(r, j), RiverPoint(r, j + 1), DOWNSTREAM>> : j \in 1..(Len(wg.rivers[r]) - 1)}
    \cup {<<RiverPoint(r, j + 1), RiverPoint(r, j), UPSTREAM>> : j \in 1..(Len(wg.rivers[r]) - 1)}

\* WaypointGraph._add_city_to_city_connections, lines 42-48: one city;
\* line 43 skips the city itself
_add_city_to_city_connections(G, wg, c) ==
    OverlandBothWays(G, wg, PopulatedPlace(c),
        SeqRange(closest_n_points_to(wg, cities(wg), PopulatedPlace(c), CityK))
            \ {PopulatedPlace(c)})

\* WaypointGraph._add_river_to_river_connections, lines 73-88: one river,
\* its start and then its end, each against the whole result of its query
_add_river_to_river_connections(G, wg, r) ==
    OverlandBothWays(
        OverlandBothWays(G, wg, start(wg, r),
            SeqRange(closest_n_points_to(wg, river_endpoints(wg), start(wg, r), RiverK))),
        wg, end(wg, r),
        SeqRange(closest_n_points_to(wg, river_endpoints(wg), end(wg, r), RiverK)))

\* mutant of closest_point_on_river: the nearer of the river's two endpoints
closest_endpoint_of_river(wg, city, r) ==
    IF distance_to(wg, city, start(wg, r)) <= distance_to(wg, city, end(wg, r))
    THEN start(wg, r) ELSE end(wg, r)

\* min(river.points_in_direction_of_water_flow, key=city.distance_to):
\* the first point of the river at the least distance from the city
closest_point_on_river(wg, city, r) ==
    LET pts == points_in_direction_of_water_flow(wg, r)
        j == CHOOSE j \in DOMAIN pts :
                 /\ \A l \in DOMAIN pts :
                        distance_to(wg, city, pts[j]) <= distance_to(wg, city, pts[l])
                 /\ \A l \in 1..(j - 1) :
                        distance_to(wg, city, pts[l]) > distance_to(wg, city, pts[j])
    IN  pts[j]

\* WaypointGraph._add_city_river_connections, lines 55-63: one city against
\* the closest point of every river
_add_city_river_connections(G, wg, c) ==
    OverlandBothWays(G, wg, PopulatedPlace(c),
        {closest_point_on_river(wg, PopulatedPlace(c), r) : r \in 1..Len(wg.rivers)})

----------------------------------------------------------------------------
(* create_waypoints.py: the script's own all-pairs connection of the cities *)

\* add_city_to_city_connections, lines 122-128: one city against every other
add_city_to_city_connections(G, wg, c) ==
    OverlandBothWays(G, wg, PopulatedPlace(c), AllCities(wg) \ {PopulatedPlace(c)})

----------------------------------------------------------------------------
(* travel_speed.py, create_waypoints.py: travel time *)

\* DEFAULT_SPEED_INFO of travel_speed.py
DEFAULT_SPEED_INFO ==
    [overland_speed_in_mile_per_day |-> 20,
     upstream_speed_in_miles_per_day |-> 15,
     downstream_speed_in_miles_per_day |-> 40,
     seas_speed_in_miles_per_day |-> 100]

\* DEFAULT_SPEED_INFO of create_waypoints.py
SCRIPT_DEFAULT_SPEED_INFO ==
    [overland_speed_in_mile_per_day |-> 20,
     upstream_speed_in_miles_per_day |-> 40,
     downstream_speed_in_miles_per_day |-> 15,
     seas_speed_in_miles_per_day |-> 100]

RECURSIVE Gcd(_, _)
Gcd(a, b) == IF b = 0 THEN a ELSE Gcd(b, a % b)
Lcm(a, b) == (a * b) \div Gcd(a, b)

\* A travel time is the rational distance / speed, in days.  It is held as the
\* integer number of 1/DayParts(speed_info) days, DayParts being the least
\* common multiple of the magnitudes of the four speeds (a speed of 0 counts
\* as 1): every quotient by a speed other than 0 is then exact.
SpeedMagnitude(speed) == IF speed = 0 THEN 1 ELSE Abs(speed)

DayParts(speed_info) ==
    Lcm(Lcm(SpeedMagnitude(speed_info.overland_speed_in_mile_per_day),
            SpeedMagnitude(speed_info.upstream_speed_in_miles_per_day)),
        Lcm(SpeedMagnitude(speed_info.downstream_speed_in_miles_per_day),
            SpeedMagnitude(speed_info.seas_speed_in_miles_per_day)))

\* mutant of distance_to_travel_time_in_days: the two river speeds exchanged
travel_time_with_river_speeds_exchanged(speed_info, distance_in_miles, travel_mode) ==
    IF travel_mode = OVERLAND
    THEN (distance_in_miles * DayParts(speed_info))
             \div speed_info.overland_speed_in_mile_per_day
    ELSE IF travel_mode = DOWNSTREAM
    THEN (distance_in_miles * DayParts(speed_info))
             \div speed_info.upstream_speed_in_miles_per_day
    ELSE IF travel_mode = UPSTREAM
    THEN (distance_in_miles * DayParts(speed_info))
             \div speed_info.downstream_speed_in_miles_per_day
    ELSE (distance_in_miles * DayParts(speed_info))
             \div speed_info.seas_speed_in_miles_per_day

\* SpeedInfo.distance_to_travel_time_in_days
distance_to_travel_time_in_days(speed_info, distance_in_miles, travel_mode) ==
    IF travel_mode = OVERLAND
    THEN (distance_in_miles * DayParts(speed_info))
             \div speed_info.overland_speed_in_mile_per_day
    ELSE IF travel_mode = DOWNSTREAM
    THEN (distance_in_miles * DayParts(speed_info))
             \div speed_info.downstream_speed_in_miles_per_day
    ELSE IF travel_mode = UPSTREAM
    THEN (distance_in_miles * DayParts(speed_info))
             \div speed_info.upstream_speed_in_miles_per_day
    ELSE (distance_in_miles * DayParts(speed_info))
             \div speed_info.seas_speed_in_miles_per_day

\* decorate_with_travel_time_in_place: every attribute dictionary of the graph
\* gets the key travel_time_in_day
decorate_with_travel_time_in_place(G, speed_info) ==
    [G EXCEPT !.adj =
        [p \in DOMAIN G.adj |->
            [distance |-> G.adj[p].distance,
             travel_mode |-> G.adj[p].travel_mode,
             travel_time_in_day |->
                 distance_to_travel_time_in_days(speed_info, G.adj[p].distance,
                                                 G.adj[p].travel_mode)]]]

----------------------------------------------------------------------------
(* networkx.shortest_path(G, source, target) with no weight argument:         *)
(* breadth-first search, a path of the fewest edges                           *)

Successors(G, u) == {v \in G.nodes : HasEdge(G, u, v)}

\* hops[v]: least number of edges from the source to v, for every v reached
RECURSIVE BreadthFirst(_, _, _, _)
BreadthFirst(G, hops, frontier, depth) ==
    IF frontier = {} THEN hops
    ELSE LET next == UNION {Successors(G, u) : u \in frontier} \ DOMAIN hops
         IN  BreadthFirst(G, hops @@ [v \in next |-> depth + 1], next, depth + 1)

HopsFrom(G, source) == BreadthFirst(G, [v \in {source} |-> 0], {source}, 0)

\* every path of the fewest edges from the source to v
RECURSIVE FewestEdgesPaths(_, _, _, _)
FewestEdgesPaths(G, hops, source, v) ==
    IF v = source THEN {<<source>>}
    ELSE UNION {{Append(q, v) : q \in FewestEdgesPaths(G, hops, source, u)} :
                   u \in {u \in DOMAIN hops : hops[u] + 1 = hops[v] /\ HasEdge(G, u, v)}}

\* the paths networkx.shortest_path may return (the one it returns is decided
\* by the insertion order of the adjacency dictionaries); {} is NetworkXNoPath
shortest_path(G, source, target) ==
    LET hops == HopsFrom(G, source)
    IN  IF target \in DOMAIN hops THEN FewestEdgesPaths(G, hops, source, target) ELSE {}

\* pretty_print_path, lines 161-164: mode and time read from the graph's edge
\* of every consecutive pair of the path
pretty_print_path(G, route) ==
    [k \in 1..(Len(route) - 1) |->
        [travel_mode |-> G.adj[<<route[k], route[k + 1]>>].travel_mode,
         travel_time_in_day |-> G.adj[<<route[k], route[k + 1]>>].travel_time_in_day]]

----------------------------------------------------------------------------
(* Geographies *)

\* the c-th city lies c*c miles along the meridian
CityMiles(c) == c * c

\* the r-th river runs through the places of the cities 5(r-1)+1, 5(r-1)+2, ...
\* (a river point and a city at the same place are two nodes)
RiverMiles(r, j) == CityMiles(5 * (r - 1) + j)

\* the rivers' lengths cycle through 2..MaxRiverLen, starting at 2 + shift
RiverLen(r, shift) == 2 + ((r - 1 + shift) % (MaxRiverLen - 1))

Geography(nCities, nRivers, shift) ==
    [cities |-> [c \in 1..nCities |-> CityMiles(c)],
     rivers |-> [r \in 1..nRivers |->
                    [j \in 1..RiverLen(r, shift) |-> RiverMiles(r, j)]]]

\* every query the builder makes has a result set independent of tie order
TieFree(wg) ==
    /\ \A c \in 1..Len(wg.cities) :
           NoCutoffTie(wg, cities(wg), PopulatedPlace(c), CityK)
    /\ \A e \in AllRiverEndpoints(wg) :
           NoCutoffTie(wg, river_endpoints(wg), e, RiverK)

\* city counts below, at and above the query size 30; river counts whose
\* endpoints are below, at and above the query size 10
CityCounts == {n \in 1..MaxCities : n <= 2 \/ n >= CityK}
RiverCounts == {n \in 1..MaxRivers : n <= 1 \/ 2 * n >= RiverK}

Geographies ==
    {wg \in {Geography(nc, nr, sh) :
                nc \in CityCounts, nr \in RiverCounts, sh \in 0..(MaxRiverLen - 2)} :
        TieFree(wg)}

\* the script loads cities only
ScriptGeographies == {Geography(nc, 0, 0) : nc \in CityCounts}

\* the cities route queries are made between (a query names two cities)
QueryCities(wg) ==
    {PopulatedPlace(c) : c \in 1..(IF Len(wg.cities) < MaxQueryCities
                                   THEN Len(wg.cities) ELSE MaxQueryCities)}

----------------------------------------------------------------------------
(* The pipeline: graph construction (WaypointGraph.create_from, or the      *)
(* script's own), decoration, route search, printing.  A construction phase *)
(* takes one step per iteration of its outer loop.                          *)

Init ==
    /\ \/ program = "waypoint_graph" /\ world_geography \in Geographies
       \/ program = "create_waypoints" /\ world_geography \in ScriptGeographies
    /\ waypoint_graph = EmptyGraph
    /\ add_edge_calls = {}
    /\ pc = "new_graph"
    /\ iter = 1
    /\ phases_run = <<>>
    /\ raised = ""
    /\ returned = ""
    /\ speeds = <<>>
    /\ source_city = <<>>
    /\ destination_city = <<>>
    /\ path = <<>>
    /\ printed = <<>>

query == <<speeds, source_city, destination_city, path, printed>>
rest == <<program, world_geography, phases_run, returned, query>>

\* the loop of the current phase moves to its next iteration, or the phase ends
Advance(last, next_pc) ==
    IF iter < last THEN pc' = pc /\ iter' = iter + 1
                   ELSE pc' = next_pc /\ iter' = 1

\* waypoint_graph.py lines 19-21, create_waypoints.py lines 171-172:
\* networkx.DiGraph(), add_nodes_from(cities)
NewGraph ==
    /\ pc = "new_graph"
    /\ waypoint_graph' = add_nodes_from(EmptyGraph, AllCities(world_geography))
    /\ pc' = IF program = "waypoint_graph" THEN "build_waypoints_from_rivers"
                                           ELSE "script_city_to_city"
    /\ UNCHANGED <<add_edge_calls, iter, raised, rest>>

\* waypoint_graph.py line 24, one river
BuildWaypointsFromRivers ==
    /\ pc = "build_waypoints_from_rivers"
    /\ waypoint_graph' = _build_waypoints_from_rivers(waypoint_graph, world_geography, iter)
    /\ add_edge_calls' = add_edge_calls \cup SegmentCalls(world_geography, iter)
    /\ Advance(Len(world_geography.rivers), "add_city_to_city_connections")
    /\ UNCHANGED <<raised, rest>>

\* waypoint_graph.py line 27, one city
AddCityToCityConnections ==
    /\ pc = "add_city_to_city_connections"
    /\ IF QueryRaises(cities(world_geography), CityK)
       THEN /\ raised' = "ValueError"
            /\ pc' = "raised"
            /\ UNCHANGED <<waypoint_graph, add_edge_calls, iter>>
       ELSE /\ waypoint_graph' =
                   _add_city_to_city_connections(waypoint_graph, world_geography, iter)
            /\ add_edge_calls' = add_edge_calls \cup
                   OverlandCalls(PopulatedPlace(iter),
                       SeqRange(closest_n_points_to(world_geography, cities(world_geography),
                                                    PopulatedPlace(iter), CityK))
                           \ {PopulatedPlace(iter)})
            /\ Advance(Len(world_geography.cities), "add_river_to_river_connections")
            /\ UNCHANGED raised
    /\ UNCHANGED rest

\* waypoint_graph.py lines 30-31, one river
AddRiverToRiverConnections ==
    /\ pc = "add_river_to_river_connections"
    /\ IF QueryRaises(river_endpoints(world_geography), RiverK)
       THEN /\ raised' = "ValueError"
            /\ pc' = "raised"
            /\ UNCHANGED <<waypoint_graph, add_edge_calls, iter>>
       ELSE /\ waypoint_graph' =
                   _add_river_to_river_connections(waypoint_graph, world_geography, iter)
            /\ add_edge_calls' = add_edge_calls
                   \cup OverlandCalls(start(world_geography, iter),
                            SeqRange(closest_n_points_to(world_geography,
                                river_endpoints(world_geography),
                                start(world_geography, iter), RiverK)))
                   \cup OverlandCalls(end(world_geography, iter),
                            SeqRange(closest_n_points_to(world_geography,
                                river_endpoints(world_geography),
                                end(world_geography, iter), RiverK)))
            /\ Advance(Len(world_geography.rivers), "add_city_river_connections")
            /\ UNCHANGED raised
    /\ UNCHANGED rest

\* waypoint_graph.py lines 34-35, one city
AddCityRiverConnections ==
    /\ pc = "add_city_river_connections"
    /\ waypoint_graph' = _add_city_river_connections(waypoint_graph, world_geography, iter)
    /\ add_edge_calls' = add_edge_calls \cup
           OverlandCalls(PopulatedPlace(iter),
               {closest_point_on_river(world_geography, PopulatedPlace(iter), r) :
                    r \in 1..Len(world_geography.rivers)})
    /\ Advance(Len(world_geography.cities), "return")
    /\ UNCHANGED <<raised, rest>>

\* create_from ends without a return statement: its caller receives None.
\* The graph the phases filled is what decoration and search go on with.
Return ==
    /\ pc = "return"
    /\ returned' = "None"
    /\ pc' = "decorate"
    /\ UNCHANGED <<program, world_geography, waypoint_graph, add_edge_calls, iter, phases_run,
                   raised, query>>

\* create_waypoints.py line 174, one city
ScriptAddCityToCityConnections ==
    /\ pc = "script_city_to_city"
    /\ waypoint_graph' = add_city_to_city_connections(waypoint_graph, world_geography, iter)
    /\ add_edge_calls' = add_edge_calls \cup
           OverlandCalls(PopulatedPlace(iter),
               AllCities(world_geography) \ {PopulatedPlace(iter)})
    /\ Advance(Len(world_geography.cities), "decorate")
    /\ UNCHANGED <<raised, rest>>

\* create_waypoints.py line 176; the script passes its own DEFAULT_SPEED_INFO
Decorate ==
    /\ pc = "decorate"
    /\ speeds' \in IF program = "create_waypoints"
                   THEN {SCRIPT_DEFAULT_SPEED_INFO}
                   ELSE {DEFAULT_SPEED_INFO, SCRIPT_DEFAULT_SPEED_INFO}
    /\ waypoint_graph' = decorate_with_travel_time_in_place(waypoint_graph, speeds')
    /\ pc' = "input"
    /\ UNCHANGED <<program, world_geography, add_edge_calls, iter, phases_run, raised, returned,
                   source_city, destination_city, path, printed>>

\* create_waypoints.py lines 183-188: the two city names are read, the path searched
ShortestPath ==
    /\ pc = "input"
    /\ \E s \in QueryCities(world_geography), t \in QueryCities(world_geography) :
           /\ source_city' = s
           /\ destination_city' = t
           /\ IF shortest_path(waypoint_graph, s, t) = {}
              THEN /\ raised' = "NetworkXNoPath"
                   /\ pc' = "raised"
                   /\ UNCHANGED path
              ELSE /\ path' \in shortest_path(waypoint_graph, s, t)
                   /\ pc' = "pretty_print_path"
                   /\ UNCHANGED raised
    /\ UNCHANGED <<program, world_geography, waypoint_graph, add_edge_calls, iter, phases_run,
                   returned, speeds, printed>>

\* create_waypoints.py line 189
PrettyPrintPath ==
    /\ pc = "pretty_print_path"
    /\ IF Len(path) < 2
       THEN /\ raised' = "RuntimeError"
            /\ pc' = "raised"
            /\ UNCHANGED printed
       ELSE /\ printed' = pretty_print_path(waypoint_graph, path)
            /\ pc' = "done"
            /\ UNCHANGED raised
    /\ UNCHANGED <<program, world_geography, waypoint_graph, add_edge_calls, iter, phases_run,
                   returned, speeds, source_city, destination_city, path>>

Next ==
    \/ NewGraph
    \/ BuildWaypointsFromRivers
    \/ AddCityToCityConnections
    \/ AddRiverToRiverConnections
    \/ AddCityRiverConnections
    \/ Return
    \/ ScriptAddCityToCityConnections
    \/ Decorate
    \/ ShortestPath
    \/ PrettyPrintPath

Spec == Init /\ [][Next]_vars

----------------------------------------------------------------------------
(* world_geography.py: construction of River values, by River.load_rivers    *)
(* and by the River constructor called directly.  world_geography.rivers     *)
(* holds the River values that exist.                                        *)

\* River(name=..., points_in_direction_of_water_flow=points): the validator
\* checks the type of every point; the default of `start` evaluates points[0],
\* which raises IndexError on an empty sequence, the default of `end`
\* evaluates points[-1].  Nothing looks at the number of points.
RiverRaises(points) == IF Len(points) = 0 THEN "IndexError" ELSE ""

\* River.load_rivers, lines 86-94: one placemark
LoadRiverRaises(river_coordinates) ==
    IF Len(river_coordinates) < 2 THEN "RuntimeError" ELSE RiverRaises(river_coordinates)

\* the points handed over for the next river
NextRiverPoints(n) == [j \in 1..n |-> RiverMiles(Len(world_geography.rivers) + 1, j)]

InitRiver ==
    /\ program = "world_geography"
    /\ world_geography = [cities |-> <<>>, rivers |-> <<>>]
    /\ waypoint_graph = EmptyGraph
    /\ add_edge_calls = {}
    /\ pc = "rivers"
    /\ iter = 1
    /\ phases_run = <<>>
    /\ raised = ""
    /\ returned = ""
    /\ speeds = <<>>
    /\ source_city = <<>>
    /\ destination_city = <<>>
    /\ path = <<>>
    /\ printed = <<>>

MakeRiver(points, exception) ==
    /\ pc = "rivers"
    /\ Len(world_geography.rivers) < MaxRivers
    /\ IF exception # ""
       THEN /\ raised' = exception
            /\ pc' = "raised"
            /\ UNCHANGED world_geography
       ELSE /\ world_geography' = [world_geography EXCEPT !.rivers = Append(@, points)]
            /\ UNCHANGED <<raised, pc>>
    /\ UNCHANGED <<program, waypoint_graph, add_edge_calls, iter, phases_run, returned, query>>

\* the constructor called directly
ConstructRiver ==
    \E n \in 0..MaxRiverLen : MakeRiver(NextRiverPoints(n), RiverRaises(NextRiverPoints(n)))

\* one placemark of River.load_rivers
LoadRiver ==
    \E n \in 0..MaxRiverLen : MakeRiver(NextRiverPoints(n), LoadRiverRaises(NextRiverPoints(n)))

NextRiver ==
    \/ ConstructRiver
    \/ LoadRiver

SpecRiver == InitRiver /\ [][NextRiver]_vars

----------------------------------------------------------------------------
(* waypoint_graph.py: the four phases of create_from as the static methods   *)
(* they are, each run whole on one DiGraph, in any order                     *)

\* the phases in the order create_from calls them, lines 24-35
create_from_phases ==
    <<"_build_waypoints_from_rivers", "_add_city_to_city_connections",
      "_add_river_to_river_connections", "_add_city_river_connections">>

\* the outer loop of a phase: `for river in rivers` or `for city in cities`
PhaseLoopLength(phase, wg) ==
    IF phase \in {"_build_waypoints_from_rivers", "_add_river_to_river_connections"}
    THEN Len(wg.rivers) ELSE Len(wg.cities)

\* one iteration of the outer loop of a phase
PhaseIteration(phase, G, wg, i) ==
    CASE phase = "_build_waypoints_from_rivers" -> _build_waypoints_from_rivers(G, wg, i)
      [] phase = "_add_city_to_city_connections" -> _add_city_to_city_connections(G, wg, i)
      [] phase = "_add_river_to_river_connections" -> _add_river_to_river_connections(G, wg, i)
      [] phase = "_add_city_river_connections" -> _add_city_river_connections(G, wg, i)

\* the add_edge calls of that iteration, as <<u, v, travel_mode>>
PhaseIterationCalls(phase, wg, i) ==
    CASE phase = "_build_waypoints_from_rivers" -> SegmentCalls(wg, i)
      [] phase = "_add_city_to_city_connections" ->
             OverlandCalls(PopulatedPlace(i),
                 SeqRange(closest_n_points_to(wg, cities(wg), PopulatedPlace(i), CityK))
                     \ {PopulatedPlace(i)})
      [] phase = "_add_river_to_river_connections" ->
             OverlandCalls(start(wg, i),
                 SeqRange(closest_n_points_to(wg, river_endpoints(wg), start(wg, i), RiverK)))
             \cup OverlandCalls(end(wg, i),
                 SeqRange(closest_n_points_to(wg, river_endpoints(wg), end(wg, i), RiverK)))
      [] phase = "_add_city_river_connections" ->
             OverlandCalls(PopulatedPlace(i),
                 {closest_point_on_river(wg, PopulatedPlace(i), r) : r \in 1..Len(wg.rivers)})

\* the first query of a phase raises when it asks for more points than are indexed
PhaseRaises(phase, wg) ==
    CASE phase = "_add_city_to_city_connections" ->
             Len(wg.cities) > 0 /\ QueryRaises(cities(wg), CityK)
      [] phase = "_add_river_to_river_connections" ->
             Len(wg.rivers) > 0 /\ QueryRaises(river_endpoints(wg), RiverK)
      [] OTHER -> FALSE

\* the whole phase: its outer loop from the i-th iteration on.  The graph
\* after an iteration is evaluated (by the comparison) before the next begins.
RECURSIVE PhaseFrom(_, _, _, _)
PhaseFrom(phase, G, wg, i) ==
    IF i > PhaseLoopLength(phase, wg) THEN G
    ELSE LET after == PhaseIteration(phase, G, wg, i)
         IN  IF after.adj = after.adj
             THEN PhaseFrom(phase, after, wg, i + 1)
             ELSE G

PhaseCalls(phase, wg) ==
    UNION {PhaseIterationCalls(phase, wg, i) : i \in 1..PhaseLoopLength(phase, wg)}

\* WaypointGraph.create_from, lines 19-35: the graph it has filled at its end
create_from(wg) ==
    PhaseFrom(create_from_phases[4],
        PhaseFrom(create_from_phases[3],
            PhaseFrom(create_from_phases[2],
                PhaseFrom(create_from_phases[1],
                    add_nodes_from(EmptyGraph, AllCities(wg)), wg, 1),
                wg, 1),
            wg, 1),
        wg, 1)

\* the geographies the phases are reordered on: city and endpoint counts below
\* the query sizes, at them, and one river above
PhaseGeographies ==
    {wg \in Geographies : Len(wg.cities) <= CityK /\ 2 * Len(wg.rivers) <= RiverK + 2}

\* lines 19-21: the DiGraph with the cities as nodes, before any phase
InitPhases ==
    /\ program = "phases"
    /\ world_geography \in PhaseGeographies
    /\ waypoint_graph = add_nodes_from(EmptyGraph, AllCities(world_geography))
    /\ add_edge_calls = {}
    /\ pc = "phases"
    /\ iter = 1
    /\ phases_run = <<>>
    /\ raised = ""
    /\ returned = ""
    /\ speeds = <<>>
    /\ source_city = <<>>
    /\ destination_city = <<>>
    /\ path = <<>>
    /\ printed = <<>>

\* a phase that has not run yet runs whole
RunPhase(phase) ==
    /\ pc = "phases"
    /\ phase \notin SeqRange(phases_run)
    /\ IF PhaseRaises(phase, world_geography)
       THEN /\ raised' = "ValueError"
            /\ pc' = "raised"
            /\ UNCHANGED <<waypoint_graph, add_edge_calls, phases_run>>
       ELSE /\ waypoint_graph' = PhaseFrom(phase, waypoint_graph, world_geography, 1)
            /\ add_edge_calls' = add_edge_calls \cup PhaseCalls(phase, world_geography)
            /\ phases_run' = Append(phases_run, phase)
            /\ UNCHANGED <<raised, pc>>
    /\ UNCHANGED <<program, world_geography, iter, returned, query>>

RunBuildWaypointsFromRivers == RunPhase("_build_waypoints_from_rivers")

RunAddCityToCityConnections == RunPhase("_add_city_to_city_connections")

RunAddRiverToRiverConnections == RunPhase("_add_river_to_river_connections")

RunAddCityRiverConnections == RunPhase("_add_city_river_connections")

NextPhases ==
    \/ RunBuildWaypointsFromRivers
    \/ RunAddCityToCityConnections
    \/ RunAddRiverToRiverConnections
    \/ RunAddCityRiverConnections

SpecPhases == InitPhases /\ [][NextPhases]_vars

----------------------------------------------------------------------------
(* travel_speed.py, create_waypoints.py: decoration of one edge with every   *)
(* speed configuration the constructors accept                               *)

\* OverlandSpeedInfo, RiverSpeedInfo, SeaSpeedInfo, lines 13-25: the only
\* validator of a speed is instance_of(float), so every float is accepted,
\* negative or zero as well.  Speeds in miles per day:
SpeedValues == {0 - 15, 0, 15, 40}

\* SpeedInfo(overland_speeds=, river_speeds=, sea_speeds=), lines 27-31
SpeedInfos ==
    [overland_speed_in_mile_per_day : SpeedValues,
     upstream_speed_in_miles_per_day : SpeedValues,
     downstream_speed_in_miles_per_day : SpeedValues,
     seas_speed_in_miles_per_day : SpeedValues]

\* the speed the function divides by, lines 34-41
DivisorOf(speed_info, travel_mode) ==
    IF travel_mode = OVERLAND THEN speed_info.overland_speed_in_mile_per_day
    ELSE IF travel_mode = DOWNSTREAM THEN speed_info.downstream_speed_in_miles_per_day
    ELSE IF travel_mode = UPSTREAM THEN speed_info.upstream_speed_in_miles_per_day
    ELSE speed_info.seas_speed_in_miles_per_day

\* a float division by 0.0 raises ZeroDivisionError
TravelTimeRaises(speed_info, travel_mode) ==
    IF DivisorOf(speed_info, travel_mode) = 0 THEN "ZeroDivisionError" ELSE ""

\* a graph of one edge of a distance >= 0 and of any travel mode
InitSpeed ==
    /\ program = "travel_speed"
    /\ world_geography = [cities |-> <<>>, rivers |-> <<>>]
    /\ \E distance \in 0..MaxDistance, travel_mode \in TravelMode :
           waypoint_graph = add_edge(EmptyGraph, PopulatedPlace(1), PopulatedPlace(2),
                                     distance, travel_mode)
    /\ add_edge_calls = {}
    /\ pc = "decorate"
    /\ iter = 1
    /\ phases_run = <<>>
    /\ raised = ""
    /\ returned = ""
    /\ speeds = <<>>
    /\ source_city = <<>>
    /\ destination_city = <<>>
    /\ path = <<>>
    /\ printed = <<>>

\* decorate_with_travel_time_in_place(waypoint_graph, speeds), lines 150-155,
\* with a SpeedInfo the constructors have accepted
DecorateEdge ==
    /\ pc = "decorate"
    /\ speeds' \in SpeedInfos
    /\ IF \E p \in DOMAIN waypoint_graph.adj :
              TravelTimeRaises(speeds', waypoint_graph.adj[p].travel_mode) # ""
       THEN /\ raised' = "ZeroDivisionError"
            /\ pc' = "raised"
            /\ UNCHANGED waypoint_graph
       ELSE /\ waypoint_graph' = decorate_with_travel_time_in_place(waypoint_graph, speeds')
            /\ pc' = "done"
            /\ UNCHANGED raised
    /\ UNCHANGED <<program, world_geography, add_edge_calls, iter, phases_run, returned,
                   source_city, destination_city, path, printed>>

NextSpeed == DecorateEdge

SpecSpeed == InitSpeed /\ [][NextSpeed]_vars

----------------------------------------------------------------------------
(* Vocabulary of the claims *)

\* all four phases of create_from have run
Constructed == program = "waypoint_graph" /\ (pc = "return" \/ returned # "")

\* the city-city phase has just ended
AfterCityToCity ==
    program = "waypoint_graph" /\ pc = "add_river_to_river_connections" /\ iter = 1

\* the city-river phase has just ended
AfterCityRiver == program = "waypoint_graph" /\ pc = "return"

\* decorate_with_travel_time_in_place has run
Decorated == speeds # <<>>

\* the graph holds an edge u -> v of the given travel mode
HoldsEdge(G, u, v, travel_mode) == HasEdge(G, u, v) /\ G.adj[<<u, v>>].travel_mode = travel_mode

OverlandBoth(G, u, v) == HoldsEdge(G, u, v, OVERLAND) /\ HoldsEdge(G, v, u, OVERLAND)

SetMin(S) == CHOOSE x \in S : \A y \in S : x <= y

\* total travel time of a node path
RECURSIVE TotalTime(_, _)
TotalTime(G, route) ==
    IF Len(route) < 2 THEN 0
    ELSE G.adj[<<route[1], route[2]>>].travel_time_in_day + TotalTime(G, Tail(route))

\* least total travel time from the source to every node reached: relaxation
\* of every edge until nothing improves
RelaxOnce(G, best) ==
    [v \in DOMAIN best \cup UNION {Successors(G, u) : u \in DOMAIN best} |->
        SetMin((IF v \in DOMAIN best THEN {best[v]} ELSE {})
               \cup {best[u] + G.adj[<<u, v>>].travel_time_in_day :
                        u \in {u \in DOMAIN best : HasEdge(G, u, v)}})]

RECURSIVE LeastTimes(_, _)
LeastTimes(G, best) ==
    IF RelaxOnce(G, best) = best THEN best ELSE LeastTimes(G, RelaxOnce(G, best))

LeastTime(G, source, target) == LeastTimes(G, [v \in {source} |-> 0])[target]

\* p is among the k points of `points` nearest to q, however equal distances
\* are ordered
AmongNearest(wg, points, q, p, k) ==
    Cardinality({o \in points : distance_to(wg, q, o) <= distance_to(wg, q, p)}) <= k

----------------------------------------------------------------------------
(* C1: for every decorated waypoint graph and every source and destination  *)
(* with the destination reachable, the path the route search returns has    *)
(* the least total travel time of all paths from the source to the          *)
(* destination.                                                             *)
C1_RouteHasLeastTotalTime ==
    (Decorated /\ path # <<>>) =>
        TotalTime(waypoint_graph, path)
            = LeastTime(waypoint_graph, source_city, destination_city)

(* C2: for every river with n >= 2 points the graph left by the complete    *)
(* construction holds exactly n-1 DOWNSTREAM and exactly n-1 UPSTREAM edges *)
(* among the river's points, the two edges of every segment of equal        *)
(* distance.                                                                *)
RiverEdges(G, wg, r, travel_mode) ==
    {p \in DOMAIN G.adj :
        /\ p[1] \in SeqRange(points_in_direction_of_water_flow(wg, r))
        /\ p[2] \in SeqRange(points_in_direction_of_water_flow(wg, r))
        /\ G.adj[p].travel_mode = travel_mode}

C2_RiverSegmentEdges ==
    Constructed =>
        \A r \in 1..Len(world_geography.rivers) :
            /\ RiverEdges(waypoint_graph, world_geography, r, DOWNSTREAM)
                 = {<<RiverPoint(r, j), RiverPoint(r, j + 1)>> :
                        j \in 1..(Len(world_geography.rivers[r]) - 1)}
            /\ RiverEdges(waypoint_graph, world_geography, r, UPSTREAM)
                 = {<<RiverPoint(r, j + 1), RiverPoint(r, j)>> :
                        j \in 1..(Len(world_geography.rivers[r]) - 1)}
            /\ \A j \in 1..(Len(world_geography.rivers[r]) - 1) :
                   waypoint_graph.adj[<<RiverPoint(r, j), RiverPoint(r, j + 1)>>].distance
                     = waypoint_graph.adj[<<RiverPoint(r, j + 1), RiverPoint(r, j)>>].distance

(* C3: whenever the builder has added a river-segment edge (UPSTREAM or     *)
(* DOWNSTREAM) and an OVERLAND edge for the same ordered pair (u, v), the   *)
(* graph holds both edges.                                                  *)
C3_ParallelEdgesKept ==
    \A c \in add_edge_calls :
        (/\ c[3] \in {UPSTREAM, DOWNSTREAM}
         /\ <<c[1], c[2], OVERLAND>> \in add_edge_calls)
        => /\ HoldsEdge(waypoint_graph, c[1], c[2], c[3])
           /\ HoldsEdge(waypoint_graph, c[1], c[2], OVERLAND)

(* C4: create_from returns a graph whose node set is exactly the union of   *)
(* the geography's cities and river points.                                 *)
C4_ReturnsGraphOfAllWaypoints ==
    (program = "waypoint_graph" /\ returned # "") =>
        /\ returned # "None"
        /\ returned.nodes = AllCities(world_geography) \cup AllRiverPoints(world_geography)

(* C5: after the city-city phase, in a geography of more than 30 cities,    *)
(* every city c has OVERLAND edges c -> d and d -> c for each of the 30     *)
(* cities d nearest to c other than c itself.                               *)
C5_ThirtyNearestOtherCities ==
    (AfterCityToCity /\ Len(world_geography.cities) > CityK) =>
        \A c \in AllCities(world_geography) :
            \A d \in AllCities(world_geography) \ {c} :
                AmongNearest(world_geography, AllCities(world_geography) \ {c}, c, d, CityK)
                    => OverlandBoth(waypoint_graph, c, d)

(* C6 as stated: after the city-river phase every city has OVERLAND edges   *)
(* both ways with its 30 nearest river endpoints, every river endpoint with *)
(* its 30 nearest cities, so every city and every river endpoint has a      *)
(* city-river edge.                                                         *)
C6_NearestEndpointsAndCities ==
    AfterCityRiver =>
        /\ \A c \in AllCities(world_geography) :
               \A e \in AllRiverEndpoints(world_geography) :
                   AmongNearest(world_geography, AllRiverEndpoints(world_geography), c, e, CityK)
                       => OverlandBoth(waypoint_graph, c, e)
        /\ \A e \in AllRiverEndpoints(world_geography) :
               \A c \in AllCities(world_geography) :
                   AmongNearest(world_geography, AllCities(world_geography), e, c, CityK)
                       => OverlandBoth(waypoint_graph, e, c)

\* p is the point of river r nearest to the city, the first in flow order of
\* the equally near ones
NearestOnRiver(wg, city, r, p) ==
    /\ p[1] = "RiverPoint" /\ p[2] = r /\ p[3] \in 1..Len(wg.rivers[r])
    /\ \A j \in 1..Len(wg.rivers[r]) :
           /\ distance_to(wg, city, p) <= distance_to(wg, city, RiverPoint(r, j))
           /\ j < p[3] => distance_to(wg, city, p) < distance_to(wg, city, RiverPoint(r, j))

(* C6 as amended: after the city-river phase every city has OVERLAND edges  *)
(* both ways, of the distance between the two, with exactly one point of    *)
(* every river: the point of that river nearest to the city (the first in   *)
(* flow order of the equally near ones), endpoint or not.  No edge joins a  *)
(* city and any other river point.                                          *)
C6_NearestPointOfEveryRiver ==
    AfterCityRiver =>
        \A c \in AllCities(world_geography) :
            \A p \in AllRiverPoints(world_geography) :
                IF NearestOnRiver(world_geography, c, p[2], p)
                THEN /\ OverlandBoth(waypoint_graph, c, p)
                     /\ waypoint_graph.adj[<<c, p>>].distance = distance_to(world_geography, c, p)
                     /\ waypoint_graph.adj[<<p, c>>].distance = distance_to(world_geography, c, p)
                ELSE ~HasEdge(waypoint_graph, c, p) /\ ~HasEdge(waypoint_graph, p, c)

\* the city-river phase has ended: a city is joined to a river point that is
\* no endpoint, and is joined to neither endpoint of that river
C6_Witness ==
    /\ AfterCityRiver
    /\ \E c \in AllCities(world_geography) :
           \E p \in AllRiverPoints(world_geography) \ AllRiverEndpoints(world_geography) :
               /\ OverlandBoth(waypoint_graph, c, p)
               /\ ~HasEdge(waypoint_graph, c, start(world_geography, p[2]))
               /\ ~HasEdge(waypoint_graph, c, end(world_geography, p[2]))

(* C7: the constructed graph has no edge from a river endpoint to itself.   *)
C7_NoEndpointSelfEdge ==
    Constructed =>
        \A e \in AllRiverEndpoints(world_geography) : ~HasEdge(waypoint_graph, e, e)

(* C8: a query for more points than are indexed does not raise, so the      *)
(* construction over a geography of fewer than 30 cities or fewer than 10   *)
(* river endpoints ends without an error.                                   *)
C8_SmallGeographyBuilds ==
    (/\ program = "waypoint_graph"
     /\ \/ Len(world_geography.cities) < CityK
        \/ 2 * Len(world_geography.rivers) < RiverK)
    => raised # "ValueError"

(* C9: no River value of fewer than 2 points exists, whether made by the    *)
(* loader or by the River constructor.                                      *)
C9_RiverHasTwoPoints ==
    \A r \in 1..Len(world_geography.rivers) : Len(world_geography.rivers[r]) >= 2

\* the configured speed of a travel mode
SpeedOf(speed_info, travel_mode) ==
    CASE travel_mode = OVERLAND -> speed_info.overland_speed_in_mile_per_day
      [] travel_mode = UPSTREAM -> speed_info.upstream_speed_in_miles_per_day
      [] travel_mode = DOWNSTREAM -> speed_info.downstream_speed_in_miles_per_day
      [] travel_mode = SEA -> speed_info.seas_speed_in_miles_per_day

(* C10: after decoration every edge of the graph carries a travel time      *)
(* equal to its distance divided by the configured speed of its own travel  *)
(* mode, and no path is searched or printed before decoration has run.      *)
C10_EveryEdgeTimed ==
    /\ Decorated =>
           \A p \in DOMAIN waypoint_graph.adj :
               /\ "travel_time_in_day" \in DOMAIN waypoint_graph.adj[p]
               /\ waypoint_graph.adj[p].travel_time_in_day
                      * SpeedOf(speeds, waypoint_graph.adj[p].travel_mode)
                    = waypoint_graph.adj[p].distance * DayParts(speeds)
    /\ (path # <<>> \/ printed # <<>> \/ pc \in {"pretty_print_path", "done"}) => Decorated

\* a path has been printed from a decorated graph that holds timed edges of
\* the three modes the builder uses
C10_Witness ==
    /\ pc = "done"
    /\ printed # <<>>
    /\ \A m \in {OVERLAND, UPSTREAM, DOWNSTREAM} :
           \E p \in DOMAIN waypoint_graph.adj :
               /\ waypoint_graph.adj[p].travel_mode = m
               /\ waypoint_graph.adj[p].distance > 0
               /\ waypoint_graph.adj[p].travel_time_in_day > 0

\* the travel mode of the edge that runs against an edge of the given mode
ReverseMode(travel_mode) ==
    CASE travel_mode = DOWNSTREAM -> UPSTREAM
      [] travel_mode = UPSTREAM -> DOWNSTREAM
      [] OTHER -> travel_mode

\* all four phases have run, in whatever order
AllPhasesRun == program = "phases" /\ Len(phases_run) = Len(create_from_phases)

(* C11: at the end of every construction phase and in the final graph,      *)
(* whatever the order of the phases, every edge u -> v has a reverse edge   *)
(* v -> u of the same distance and of the corresponding travel mode:        *)
(* OVERLAND for OVERLAND, UPSTREAM for DOWNSTREAM, DOWNSTREAM for UPSTREAM. *)
C11_EveryEdgeHasItsReverse ==
    program = "phases" =>
        \A p \in DOMAIN waypoint_graph.adj :
            /\ HasEdge(waypoint_graph, p[2], p[1])
            /\ waypoint_graph.adj[<<p[2], p[1]>>].distance = waypoint_graph.adj[p].distance
            /\ waypoint_graph.adj[<<p[2], p[1]>>].travel_mode
                   = ReverseMode(waypoint_graph.adj[p].travel_mode)

\* all four phases have run in an order that is not create_from's, one pair
\* of nodes was given a river edge and an OVERLAND edge, and the graph holds
\* river edges and OVERLAND edges
C11_Witness ==
    /\ AllPhasesRun
    /\ phases_run # create_from_phases
    /\ \E c \in add_edge_calls :
           c[3] = DOWNSTREAM /\ <<c[1], c[2], OVERLAND>> \in add_edge_calls
    /\ \E p \in DOMAIN waypoint_graph.adj : waypoint_graph.adj[p].travel_mode = DOWNSTREAM
    /\ \E p \in DOMAIN waypoint_graph.adj : waypoint_graph.adj[p].travel_mode = OVERLAND

(* C12: the four construction phases commute: run in any order they leave   *)
(* the graph create_from leaves, the same edges with the same travel mode   *)
(* and distance on each.                                                    *)
C12_PhasesCommute ==
    AllPhasesRun => waypoint_graph = create_from(world_geography)

(* C13: for every speed configuration the SpeedInfo constructors accept and *)
(* every edge distance >= 0, the travel time computed for the edge's travel *)
(* mode is defined (nothing is raised) and non-negative.                    *)
C13_TravelTimeDefinedNonNegative ==
    program = "travel_speed" =>
        /\ raised = ""
        /\ pc = "done" =>
               \A p \in DOMAIN waypoint_graph.adj :
                   waypoint_graph.adj[p].travel_time_in_day >= 0

====
